---------------------------- MODULE Spec2Model ----------------------------
(***************************************************************************)
(* A model of the straptrack library (src/src/lib.rs): the per-line record *)
(* extractor parse_line, the streaming iterator, schema discovery          *)
(* (get_column_names) and the two-pass conversion to_parquet.              *)
(*                                                                         *)
(* Text is modelled at character level: a str is a sequence of one-        *)
(* character strings.  An f64 is modelled by the decimal it denotes, in    *)
(* the normal form [neg, m, e] standing for (-1)^neg * m * 10^e with m not *)
(* divisible by 10 (m = 0 has e = 0); for the short tokens of the model    *)
(* two tokens denote the same decimal exactly when Rust parses them to the *)
(* same f64.                                                               *)
(***************************************************************************)
EXTENDS Integers, Sequences, FiniteSets, TLC

---------------------------------------------------------------------------
(* Bounds of the model *)

\* longest line of the extractor specification, in tokens
MaxTokens == 4

\* most lines the source file ever holds
MaxLines == 3

\* largest chunk_size a conversion is called with (0 is included)
MaxChunk == 2

---------------------------------------------------------------------------
(* Characters and strings *)

Marker == <<"@", "s", "t", "r", "a", "p">>

IsWhitespace(c) == c \in {" ", "\t", "\n"}

IsDigit(c) == c \in {"0", "1", "2", "3", "4", "5", "6", "7", "8", "9"}

DigitVal(c) ==
  CASE c = "0" -> 0 [] c = "1" -> 1 [] c = "2" -> 2 [] c = "3" -> 3
    [] c = "4" -> 4 [] c = "5" -> 5 [] c = "6" -> 6 [] c = "7" -> 7
    [] c = "8" -> 8 [] c = "9" -> 9

\* s[from..] (1-based, from may be Len(s)+1)
Suffix(s, from) == SubSeq(s, from, Len(s))

StartsWithAt(s, pat, i) ==
  /\ i + Len(pat) - 1 <= Len(s)
  /\ \A j \in 1..Len(pat) : s[i + j - 1] = pat[j]

\* str::find(pat): the position of the first occurrence, 0 when there is none
Find(s, pat) ==
  LET hits == {i \in 1..Len(s) : StartsWithAt(s, pat, i)}
  IN IF hits = {} THEN 0 ELSE CHOOSE i \in hits : \A j \in hits : i <= j

\* str::find(char::is_whitespace)
FindWhitespace(s) ==
  LET hits == {i \in 1..Len(s) : IsWhitespace(s[i])}
  IN IF hits = {} THEN 0 ELSE CHOOSE i \in hits : \A j \in hits : i <= j

\* str::trim_start
TrimStart(s) ==
  LET keep == {i \in 1..Len(s) : ~IsWhitespace(s[i])}
  IN IF keep = {} THEN <<>>
     ELSE Suffix(s, CHOOSE i \in keep : \A j \in keep : i <= j)

\* str::trim
Trim(s) ==
  LET keep == {i \in 1..Len(s) : ~IsWhitespace(s[i])}
  IN IF keep = {} THEN <<>>
     ELSE SubSeq(s, CHOOSE i \in keep : \A j \in keep : i <= j,
                    CHOOSE i \in keep : \A j \in keep : i >= j)

\* [str]::join(sep)
RECURSIVE Join(_, _)
Join(toks, sep) ==
  IF toks = << >> THEN << >>
  ELSE IF Len(toks) = 1 THEN toks[1]
  ELSE toks[1] \o sep \o Join(Tail(toks), sep)

\* str::split_whitespace().collect(): the maximal runs of non-whitespace
RECURSIVE SplitWhitespace(_)
SplitWhitespace(s) ==
  LET t == TrimStart(s)
      w == FindWhitespace(t)
  IN IF t = <<>> THEN <<>>
     ELSE IF w = 0 THEN <<t>>
     ELSE <<SubSeq(t, 1, w - 1)>> \o SplitWhitespace(Suffix(t, w))

---------------------------------------------------------------------------
(* f64 values and str::parse::<f64> *)

\* ASCII lower-casing (str::to_lowercase, and the float grammar's letters)
LowerChar(c) ==
  CASE c = "A" -> "a" [] c = "B" -> "b" [] c = "C" -> "c" [] c = "D" -> "d"
    [] c = "E" -> "e" [] c = "F" -> "f" [] c = "G" -> "g" [] c = "H" -> "h"
    [] c = "I" -> "i" [] c = "J" -> "j" [] c = "K" -> "k" [] c = "L" -> "l"
    [] c = "M" -> "m" [] c = "N" -> "n" [] c = "O" -> "o" [] c = "P" -> "p"
    [] c = "Q" -> "q" [] c = "R" -> "r" [] c = "S" -> "s" [] c = "T" -> "t"
    [] c = "U" -> "u" [] c = "V" -> "v" [] c = "W" -> "w" [] c = "X" -> "x"
    [] c = "Y" -> "y" [] c = "Z" -> "z"
    [] OTHER -> c

LowerStr(s) == [i \in 1..Len(s) |-> LowerChar(s[i])]

AllDigits(s) == \A i \in 1..Len(s) : IsDigit(s[i])

\* the natural number a digit string denotes (0 for the empty string)
RECURSIVE DigitsVal(_)
DigitsVal(s) ==
  IF s = <<>> THEN 0
  ELSE 10 * DigitsVal(SubSeq(s, 1, Len(s) - 1)) + DigitVal(s[Len(s)])

\* the normal form of m * 10^e
RECURSIVE Normalize(_, _)
Normalize(m, e) ==
  IF m = 0 THEN <<0, 0>>
  ELSE IF m % 10 = 0 THEN Normalize(m \div 10, e + 1)
  ELSE <<m, e>>

NumVal(neg, m, e) ==
  LET n == Normalize(m, e)
  IN [cls |-> "num", neg |-> neg, m |-> n[1], e |-> n[2]]

InfVal(neg) == [cls |-> "inf", neg |-> neg, m |-> 0, e |-> 0]
NanVal(neg) == [cls |-> "nan", neg |-> neg, m |-> 0, e |-> 0]

ParseErr == [ok |-> FALSE, val |-> NanVal(FALSE)]
ParseOk(v) == [ok |-> TRUE, val |-> v]

\* Exp ::= 'e' Sign? Digit+ , given without the 'e'
ExpOk(x) ==
  LET signed == x # <<>> /\ x[1] \in {"+", "-"}
      ds == IF signed THEN Tail(x) ELSE x
  IN ds # <<>> /\ AllDigits(ds)

ExpVal(x) ==
  LET signed == x # <<>> /\ x[1] \in {"+", "-"}
      ds == IF signed THEN Tail(x) ELSE x
  IN IF signed /\ x[1] = "-" THEN 0 - DigitsVal(ds) ELSE DigitsVal(ds)

\* Number ::= ( Digit+ | Digit+ '.' Digit* | Digit* '.' Digit+ ) Exp?
ParseNumber(neg, s) ==
  LET epos == Find(LowerStr(s), <<"e">>)
      mant == IF epos = 0 THEN s ELSE SubSeq(s, 1, epos - 1)
      expo == IF epos = 0 THEN <<>> ELSE Suffix(s, epos + 1)
      dot  == Find(mant, <<".">>)
      ip   == IF dot = 0 THEN mant ELSE SubSeq(mant, 1, dot - 1)
      fp   == IF dot = 0 THEN <<>> ELSE Suffix(mant, dot + 1)
      mantOk == AllDigits(ip) /\ AllDigits(fp) /\ Len(ip) + Len(fp) > 0
      expOk  == epos = 0 \/ ExpOk(expo)
  IN IF mantOk /\ expOk
     THEN ParseOk(NumVal(neg, DigitsVal(ip \o fp),
                         (IF epos = 0 THEN 0 ELSE ExpVal(expo)) - Len(fp)))
     ELSE ParseErr

\* Float ::= Sign? ( 'inf' | 'infinity' | 'nan' | Number ), letters in any case
ParseF64(tok) ==
  LET signed == tok # <<>> /\ tok[1] \in {"+", "-"}
      neg    == signed /\ tok[1] = "-"
      body   == IF signed THEN Tail(tok) ELSE tok
      low    == LowerStr(body)
  IN IF low = <<"n", "a", "n">> THEN ParseOk(NanVal(neg))
     ELSE IF low = <<"i", "n", "f">>
             \/ low = <<"i", "n", "f", "i", "n", "i", "t", "y">>
          THEN ParseOk(InfVal(neg))
     ELSE ParseNumber(neg, body)

---------------------------------------------------------------------------
(* Records: HashMap<String, f64> as a function from keys to values *)

EmptyRecord == << >>

\* an insert that keeps the value a key already has
InsertKeepFirst(rec, key, val) ==
  [k \in (DOMAIN rec) \cup {key} |-> IF k \in DOMAIN rec THEN rec[k] ELSE val]

\* HashMap::insert: a later insert of the same key replaces the value
Insert(rec, key, val) ==
  [k \in (DOMAIN rec) \cup {key} |-> IF k = key THEN val ELSE rec[k]]

\* HashMap::keys
Keys(rec) == DOMAIN rec

\* HashMap::get(col).copied(): Some(value) or None
NoneVal == [some |-> FALSE, val |-> NanVal(FALSE)]
SomeVal(v) == [some |-> TRUE, val |-> v]

\* mutant: a missing key reads as 0.0 instead of None
GetOrZero(rec, col) ==
  IF col \in DOMAIN rec THEN SomeVal(rec[col]) ELSE SomeVal(NumVal(FALSE, 0, 0))

Get(rec, col) == IF col \in DOMAIN rec THEN SomeVal(rec[col]) ELSE NoneVal

---------------------------------------------------------------------------
(* StrapTrack::parse_line *)

\* the text parse_line tokenizes: what follows the first "@strap" and the
\* non-whitespace run it starts; the whole trimmed line when there is no
\* "@strap" (only used then when all is set)
StripMarker(trimmed) ==
  LET pos == Find(trimmed, Marker)
      after_strap == Suffix(trimmed, pos)
      ws == FindWhitespace(after_strap)
  IN IF pos = 0 THEN trimmed
     ELSE TrimStart(IF ws # 0 THEN Suffix(after_strap, ws) ELSE after_strap)

\* for chunk in tokens.chunks(2): insert when the chunk is a pair whose
\* second token parses
\* a pairing loop that gives up at the first non-numeric value
RECURSIVE InsertPairsAborting(_, _)
InsertPairsAborting(rec, tokens) ==
  IF Len(tokens) < 2 THEN rec
  ELSE LET value == ParseF64(tokens[2])
       IN IF value.ok
          THEN InsertPairsAborting(Insert(rec, tokens[1], value.val),
                                   Suffix(tokens, 3))
          ELSE rec

\* a pairing loop over every two neighbouring tokens
RECURSIVE InsertPairsSliding(_, _)
InsertPairsSliding(rec, tokens) ==
  IF Len(tokens) < 2 THEN rec
  ELSE LET value == ParseF64(tokens[2])
       IN InsertPairsSliding(IF value.ok
                             THEN Insert(rec, tokens[1], value.val)
                             ELSE rec,
                             Suffix(tokens, 2))

\* a pairing loop that, after a value that does not parse, takes that token
\* as the next key
RECURSIVE InsertPairsResync(_, _)
InsertPairsResync(rec, tokens) ==
  IF Len(tokens) < 2 THEN rec
  ELSE LET value == ParseF64(tokens[2])
       IN IF value.ok
          THEN InsertPairsResync(Insert(rec, tokens[1], value.val),
                                 Suffix(tokens, 3))
          ELSE InsertPairsResync(rec, Suffix(tokens, 2))

RECURSIVE InsertPairs(_, _)
InsertPairs(rec, tokens) ==
  IF Len(tokens) < 2 THEN rec
  ELSE LET value == ParseF64(tokens[2])
       IN InsertPairs(IF value.ok THEN Insert(rec, tokens[1], value.val) ELSE rec,
                      Suffix(tokens, 3))

parse_line(ln, permissive) ==
  LET trimmed == Trim(ln)
  IN IF Find(trimmed, Marker) = 0 /\ ~permissive
     THEN EmptyRecord
     ELSE InsertPairs(EmptyRecord, SplitWhitespace(StripMarker(trimmed)))

---------------------------------------------------------------------------
(* Ordering of strings: String's Ord is the lexicographic order of bytes *)

CharCode(c) ==
  CASE c = "\t" -> 9 [] c = "\n" -> 10 [] c = " " -> 32 [] c = "+" -> 43
    [] c = "-" -> 45 [] c = "." -> 46
    [] c = "0" -> 48 [] c = "1" -> 49 [] c = "2" -> 50 [] c = "3" -> 51
    [] c = "4" -> 52 [] c = "5" -> 53 [] c = "6" -> 54 [] c = "7" -> 55
    [] c = "8" -> 56 [] c = "9" -> 57 [] c = "@" -> 64
    [] c = "a" -> 97 [] c = "b" -> 98 [] c = "e" -> 101 [] c = "g" -> 103
    [] c = "k" -> 107 [] c = "l" -> 108 [] c = "o" -> 111 [] c = "p" -> 112
    [] c = "r" -> 114 [] c = "s" -> 115 [] c = "t" -> 116 [] c = "x" -> 120
    [] c = "z" -> 122

RECURSIVE StrLess(_, _)
StrLess(a, b) ==
  IF b = <<>> THEN FALSE
  ELSE IF a = <<>> THEN TRUE
  ELSE IF a[1] # b[1] THEN CharCode(a[1]) < CharCode(b[1])
  ELSE StrLess(Tail(a), Tail(b))

IsSorted(names) ==
  \A i \in 1..Len(names) - 1 : StrLess(names[i], names[i + 1])

Range(f) == {f[i] : i \in DOMAIN f}

\* the orders in which a set can be laid out as a sequence
Orderings(S) ==
  {f \in [1..Cardinality(S) -> S] : Range(f) = S}

\* Vec::sort
RECURSIVE SortedInsert(_, _)
SortedInsert(sorted, x) ==
  IF sorted = <<>> THEN <<x>>
  ELSE IF StrLess(sorted[1], x) THEN <<sorted[1]>> \o SortedInsert(Tail(sorted), x)
  ELSE <<x>> \o sorted

\* mutant: the names are left in the order they came in
SortOmitted(names) == names

RECURSIVE Sort(_)
Sort(names) ==
  IF names = <<>> THEN <<>>
  ELSE SortedInsert(Sort(Tail(names)), names[1])

\* str::ends_with
EndsWith(s, suffix) ==
  /\ Len(suffix) <= Len(s)
  /\ Suffix(s, Len(s) - Len(suffix) + 1) = suffix

---------------------------------------------------------------------------
(* Inputs *)

\* the lines a source file is made of (without the line terminator)
FileLines ==
  { <<"k", " ", "1", " ", "a", " ", "2">>,
    <<"x", " ", "@", "s", "t", "r", "a", "p", "1", " ", "b", " ",
      "2", ".", "5", " ", "a", " ", "3", " ", "k">>,
    << >> }

\* the paths a StrapTrack is constructed with
Paths ==
  { <<"t", ".", "s", "t", "r", "a", "p">>,
    <<"t", ".", "l", "o", "g">> }

RECURSIVE SeqsUpTo(_, _)
SeqsUpTo(S, n) ==
  IF n = 0 THEN {<< >>}
  ELSE LET shorter == SeqsUpTo(S, n - 1)
       IN shorter \cup {Append(q, x) : q \in {r \in shorter : Len(r) = n - 1}, x \in S}

---------------------------------------------------------------------------
(* State *)

VARIABLES
  file_path,     \* StrapTrack.file_path
  source,        \* the lines of the file at file_path, as decoded
  changed,       \* history: a line was appended to the source
  pc,            \* where to_parquet stands
  chunk_size,    \* to_parquet's argument
  reader,        \* the open StrapTrackIterator: [open, pos]
  unique_keys,   \* get_column_names' HashSet
  column_names,  \* to_parquet's column_names
  chunk_data,    \* the records collected for the current chunk
  current_elt,   \* the element itertools read ahead of the current chunk
  out,           \* the output file and its ArrowWriter
  ret,           \* what to_parquet returned
  ret_pc,        \* history: where to_parquet stood when it returned
  yielded,       \* history: the records the current pass has yielded so far
  rerun,         \* the conversion is a second one of the same source
  prev_out,      \* history: the output of the previous conversion
  prev_chunk,    \* history: the chunk_size of the previous conversion
  streams,       \* the source streams to_parquet has opened so far and
                 \* those it holds now: [opened, live]
  seen,          \* history: the lines pass one of the running conversion
                 \* had read at end of stream
  line,          \* parse_line's argument
  all,           \* parse_line's flag
  result,        \* parse_line's return value
  parsed,        \* parse_line has returned
  op,            \* the consumer of iter(): iter, for_each_row, filter_rows
                 \* or aggregate
  ipc,           \* where the consumer stands: start, running, done
  pred,          \* filter_rows' predicate: the key a record must have
  elts,          \* history: the elements next() has returned
  reads,         \* history: the outcomes of the read_line calls
  calls,         \* history: the callback's invocations, [rec, ret]
  results,       \* filter_rows' results
  acc,           \* aggregate's acc
  iret,          \* what the consumer returned: [kind, val]
  opath,         \* create_reader: the path of the StrapTrack
  content,       \* create_reader: what the file at the path holds
  opened,        \* create_reader's return value: [kind, decoder, err,
                 \* entry]
  polled,        \* the kind of the first element polled from the reader
  oall,          \* iter()'s flag all for the path
  conditions,    \* the SQLFilter of a curve: its OR groups of comparisons
  parquet,       \* the parquet file behind the table path: [version,
                 \* readable]
  cache,         \* the Cache of MyApp: [column_names, stat, histogram]
  queries,       \* history: the queries run, counted per kind and input
  gret           \* the last return of a get_ function: [kind, input,
                 \* output, queried]

vars == <<file_path, source, changed, pc, chunk_size, reader, unique_keys,
          column_names, chunk_data, current_elt, out, ret, ret_pc, yielded,
          rerun, prev_out, prev_chunk, streams, seen, line, all, result, parsed,
          op, ipc,
          pred, elts, reads, calls, results, acc, iret, opath, content,
          opened, polled, oall, conditions, parquet, cache, queries, gret>>

convVars == <<file_path, source, changed, pc, chunk_size, reader, unique_keys,
              column_names, chunk_data, current_elt, out, ret, ret_pc,
              yielded, rerun, prev_out, prev_chunk, streams, seen>>

parseVars == <<line, all, result, parsed>>

iterVars == <<op, ipc, pred, elts, reads, calls, results, acc, iret>>

openVars == <<opath, content, opened, polled, oall>>

cacheVars == <<parquet, cache, queries, gret>>

guiVars == <<conditions, parquet, cache, queries, gret>>

---------------------------------------------------------------------------
(* StrapTrack::iter and StrapTrackIterator::next *)

DotStrap == <<".", "s", "t", "r", "a", "p">>

\* iter()'s flag all: the lower-cased path ends in .strap, or in .strap and
\* one compression suffix
IterAll(path) ==
  LET path_str == LowerStr(path)
  IN \/ EndsWith(path_str, DotStrap)
     \/ EndsWith(path_str, DotStrap \o <<".", "g", "z">>)
     \/ EndsWith(path_str, DotStrap \o <<".", "g", "z", "i", "p">>)
     \/ EndsWith(path_str, DotStrap \o <<".", "z", "s", "t">>)
     \/ EndsWith(path_str, DotStrap \o <<".", "z", "s", "t", "d">>)
     \/ EndsWith(path_str, DotStrap \o <<".", "z", "i", "p">>)

\* a consumer of iter() has not returned; its Err and Ok(val) returns
NoReturn == [kind |-> "none", val |-> << >>]
ErrReturn == [kind |-> "Err", val |-> << >>]
OkReturn(val) == [kind |-> "Ok", val |-> val]

\* create_reader: no file at the path, and no call made yet
NoFile == [exists |-> FALSE, format |-> "text", entries |-> 0,
           readable |-> FALSE]
NoEntry == 0 - 1
NotOpened == [kind |-> "none", decoder |-> "none", err |-> "none",
              entry |-> NoEntry]

ClosedReader == [open |-> FALSE, pos |-> 0]

\* the source streams of a StrapTrack: none opened yet; iter() opens one;
\* the iterator of a pass is dropped; every local of to_parquet is dropped
NoStreams == [opened |-> 0, live |-> 0]
Acquire(st) == [opened |-> st.opened + 1, live |-> st.live + 1]
ReleaseLeaks(st) == st
Release(st) == [st EXCEPT !.live = @ - 1]
DropAll(st) == [st EXCEPT !.live = 0]
OpenedReader == [open |-> TRUE, pos |-> 0]

\* Option<Result<HashMap, io::Error>>
NoneElt == [kind |-> "none", rec |-> EmptyRecord]
ErrElt == [kind |-> "err", rec |-> EmptyRecord]
OkElt(rec) == [kind |-> "ok", rec |-> rec]

\* BufRead::read_line: the next line with its terminator
ReadLine(src, pos) == src[pos + 1] \o <<"\n">>

\* the lines read_line returns from a source file, terminator included
ReadLines == {l \o <<"\n">> : l \in FileLines}

\* parse_line is a function of its arguments alone: its records for the lines
\* of the source files, computed once
ReadRecords ==
  [text \in ReadLines |-> [a \in BOOLEAN |-> parse_line(text, a)]]

\* line 35: StrapTrack::parse_line(&line, self.all), looked up when the line
\* is one of a source file
ParseRead(text, a) ==
  IF text \in ReadLines THEN ReadRecords[text][a] ELSE parse_line(text, a)

\* mutant: a line that yields no entry ends the stream
IterNextStopsAtEmpty(src, rd, path, fail) ==
  IF fail THEN ErrElt
  ELSE IF rd.pos >= Len(src) THEN NoneElt
  ELSE IF ParseRead(ReadLine(src, rd.pos), IterAll(path)) = EmptyRecord
       THEN NoneElt
  ELSE OkElt(ParseRead(ReadLine(src, rd.pos), IterAll(path)))

\* an iterator that ends the stream for good once a read has failed
IterNextFused(src, rd, path, fail) ==
  IF \E i \in 1..Len(elts) : elts[i].kind = "err" THEN NoneElt
  ELSE IF fail THEN ErrElt
  ELSE IF rd.pos >= Len(src) THEN NoneElt
  ELSE OkElt(ParseRead(ReadLine(src, rd.pos), IterAll(path)))

\* StrapTrackIterator::next on reader rd over the lines src: a failed read is
\* Some(Err), no bytes left is None, a line is Some(Ok(parse_line(line, all)))
IterNext(src, rd, path, fail) ==
  IF fail THEN ErrElt
  ELSE IF rd.pos >= Len(src) THEN NoneElt
  ELSE OkElt(ParseRead(ReadLine(src, rd.pos), IterAll(path)))

Advance(rd) == [rd EXCEPT !.pos = @ + 1]

---------------------------------------------------------------------------
(* The output file, its ArrowWriter and the batches *)

\* mutant: the output file is created as soon as to_parquet is entered
EagerOut ==
  [created |-> TRUE, writer |-> FALSE, header |-> << >>, batches |-> << >>,
   closed |-> FALSE, closes |-> 0]

\* the output as a call of to_parquet finds it: not yet created by this call
FreshOut ==
  [created |-> FALSE, writer |-> FALSE, header |-> << >>, batches |-> << >>,
   closed |-> FALSE, closes |-> 0]

\* lines 240-246: one array per column name, one Option<f64> per record
BuildArrays(names, records) ==
  [j \in 1..Len(names) |->
     [i \in 1..Len(records) |-> Get(records[i], names[j])]]

\* RecordBatch::try_new(schema, arrays): fails without a column to take the
\* row count from
BatchOk(arrays) == Len(arrays) > 0

\* mutant: a batch declares only the columns it has a value for
NewBatchSparse(schema, arrays) ==
  LET kept == SelectSeq([j \in 1..Len(arrays) |-> j],
                        LAMBDA j : \E i \in 1..Len(arrays[j]) : arrays[j][i].some)
  IN [schema |-> [n \in 1..Len(kept) |-> schema[kept[n]]],
      arrays |-> [n \in 1..Len(kept) |-> arrays[kept[n]]],
      num_rows |-> Len(arrays[1])]

NewBatch(schema, arrays) ==
  [schema |-> schema, arrays |-> arrays, num_rows |-> Len(arrays[1])]

\* row i of a batch, one Option<f64> per column
BatchRow(b, i) == [j \in 1..Len(b.arrays) |-> b.arrays[j][i]]

BatchRows(b) == [i \in 1..b.num_rows |-> BatchRow(b, i)]

\* the rows of a sequence of batches, in write order
RECURSIVE Rows(_)
Rows(batches) ==
  IF batches = << >> THEN << >>
  ELSE BatchRows(batches[1]) \o Rows(Tail(batches))

---------------------------------------------------------------------------
(* StrapTrack::get_column_names *)

\* mutant: the key set is replaced by the record's keys
InsertKeysReplacing(keys, rec) == Keys(rec)

\* lines 108-110: every key of the record goes into the hash set
InsertKeys(keys, rec) == keys \cup Keys(rec)

---------------------------------------------------------------------------
(* StrapTrack::to_parquet, step by step *)

\* mutant: the element read ahead is lost
ChunkFirstLost(elt) == << >>

\* the chunk the loop starts after a full chunk: it begins with the element
\* that was read ahead (Chunk.first)
ChunkFirst(elt) == <<elt.rec>>


\* mutant: dropping the writer finalizes the container
ReturnFinalizing(r, o) ==
  /\ pc' = "done"
  /\ ret' = r
  /\ ret_pc' = pc
  /\ yielded' = 0
  /\ reader' = ClosedReader
  /\ unique_keys' = {}
  /\ column_names' = << >>
  /\ chunk_data' = << >>
  /\ current_elt' = NoneElt
  /\ out' = [o EXCEPT !.writer = FALSE,
                      !.closed = o.closed \/ o.writer,
                      !.closes = IF o.writer /\ ~o.closed THEN @ + 1 ELSE @]
  /\ streams' = DropAll(streams)
  /\ seen' = 0

\* to_parquet returns r: its locals (iterator, key set, names, chunk, the
\* writer) are dropped; the writer's drop writes no footer
Return(r, o) ==
  /\ pc' = "done"
  /\ ret' = r
  /\ ret_pc' = pc
  /\ yielded' = 0
  /\ reader' = ClosedReader
  /\ unique_keys' = {}
  /\ column_names' = << >>
  /\ chunk_data' = << >>
  /\ current_elt' = NoneElt
  /\ out' = [o EXCEPT !.writer = FALSE]
  /\ streams' = DropAll(streams)
  /\ seen' = 0

\* line 235: chunks(0) panics when the source has just been opened again;
\* unwinding drops to_parquet's locals as a return does
Unwind(o) ==
  /\ pc' = "done"
  /\ ret' = "Panic"
  /\ ret_pc' = pc
  /\ yielded' = 0
  /\ reader' = ClosedReader
  /\ unique_keys' = {}
  /\ column_names' = << >>
  /\ chunk_data' = << >>
  /\ current_elt' = NoneElt
  /\ out' = [o EXCEPT !.writer = FALSE]
  /\ streams' = DropAll(Acquire(streams))
  /\ seen' = 0

\* strap2parquet.rs, lines 27-34 and 39: --chunk-size is parsed as a usize,
\* so every natural number is accepted, 0 included, and handed to to_parquet
ChunkSizes == 0..MaxChunk

\* line 219, get_column_names, line 107: iter() opens the source (pass one)
ToParquet ==
  /\ pc = "idle" \/ (pc = "done" /\ ret = "Ok" /\ ~rerun)
  /\ rerun' = (pc = "done")
  /\ prev_out' = out
  /\ prev_chunk' = chunk_size
  /\ seen' = 0
  /\ \E c \in ChunkSizes, open_ok \in BOOLEAN :
       /\ chunk_size' = c
       /\ IF open_ok
          THEN /\ pc' = "discover"
               /\ ret' = "none"
               /\ reader' = OpenedReader
               /\ unique_keys' = {}
               /\ out' = FreshOut
               /\ yielded' = 0
               /\ streams' = Acquire(streams)
               /\ UNCHANGED <<column_names, chunk_data, current_elt, ret_pc>>
          ELSE Return("Err", FreshOut)
  /\ UNCHANGED <<file_path, source, changed, parseVars, iterVars, openVars,
                 guiVars>>

\* lines 107-112: one poll of pass one; at end of stream the key set is
\* collected into a Vec in the hash set's iteration order
DiscoverNext ==
  /\ pc = "discover"
  /\ \E fail \in BOOLEAN :
       LET elt == IterNext(source, reader, file_path, fail)
       IN CASE elt.kind = "err" -> Return("Err", out)
            [] elt.kind = "none" ->
                 /\ pc' = "sort"
                 /\ reader' = ClosedReader
                 /\ column_names' \in Orderings(unique_keys)
                 /\ streams' = Release(streams)
                 /\ seen' = yielded
                 /\ UNCHANGED <<unique_keys, chunk_data, current_elt, out, ret,
                                ret_pc, yielded>>
            [] elt.kind = "ok" ->
                 /\ unique_keys' = InsertKeys(unique_keys, elt.rec)
                 /\ reader' = Advance(reader)
                 /\ yielded' = yielded + 1
                 /\ UNCHANGED <<pc, column_names, chunk_data, current_elt, out,
                                ret, ret_pc, streams, seen>>
  /\ UNCHANGED <<file_path, source, changed, chunk_size, rerun, prev_out,
                 prev_chunk, parseVars, iterVars, openVars,
                 guiVars>>

\* line 221
SortNames ==
  /\ pc = "sort"
  /\ column_names' = Sort(column_names)
  /\ pc' = "create"
  /\ UNCHANGED <<file_path, source, changed, chunk_size, reader, unique_keys,
                 chunk_data, current_elt, out, ret, ret_pc, yielded, rerun,
                 prev_out, prev_chunk, streams, seen, parseVars,
                 iterVars, openVars, guiVars>>

\* lines 224-233: File::create truncates the output, ArrowWriter::try_new
\* writes the schema header; either may fail
CreateWriter ==
  /\ pc = "create"
  /\ \E outcome \in {"create_err", "writer_err", "ok"} :
       CASE outcome = "create_err" -> Return("Err", out)
         [] outcome = "writer_err" ->
              Return("Err", [out EXCEPT !.created = TRUE])
         [] outcome = "ok" ->
              /\ out' = [out EXCEPT !.created = TRUE, !.writer = TRUE,
                                    !.header = column_names]
              /\ pc' = "open"
              /\ UNCHANGED <<reader, unique_keys, column_names, chunk_data,
                             current_elt, ret, ret_pc, yielded, streams, seen>>
  /\ UNCHANGED <<file_path, source, changed, chunk_size, rerun, prev_out,
                 prev_chunk, parseVars, iterVars, openVars,
                 guiVars>>

\* line 235: iter() opens the source again (pass two), then chunks(chunk_size)
\* asserts chunk_size != 0
OpenChunks ==
  /\ pc = "open"
  /\ \E open_ok \in BOOLEAN :
       IF ~open_ok THEN Return("Err", out)
       ELSE IF chunk_size = 0 THEN Unwind(out)
       ELSE /\ reader' = OpenedReader
            /\ pc' = "fill"
            /\ yielded' = 0
            /\ streams' = Acquire(streams)
            /\ UNCHANGED <<unique_keys, column_names, chunk_data, current_elt,
                           out, ret, ret_pc, seen>>
  /\ UNCHANGED <<file_path, source, changed, chunk_size, rerun, prev_out,
                 prev_chunk, parseVars, iterVars, openVars,
                 guiVars>>

\* lines 235-237: one poll of pass two by the chunk being collected.  An
\* element read when the chunk already holds chunk_size records belongs to
\* the next chunk: itertools keeps it (current_elt) and ends the chunk.
ChunkNext ==
  /\ pc = "fill"
  /\ \E fail \in BOOLEAN :
       LET elt == IterNext(source, reader, file_path, fail)
           full == Len(chunk_data) = chunk_size
       IN CASE elt.kind = "none" ->
                 /\ pc' = IF chunk_data = << >> THEN "close" ELSE "batch"
                 /\ streams' = IF chunk_data = << >> THEN Release(streams)
                                ELSE streams
                 /\ UNCHANGED <<reader, unique_keys, column_names, chunk_data,
                                current_elt, out, ret, ret_pc, yielded, seen>>
            [] elt.kind # "none" /\ full ->
                 /\ current_elt' = elt
                 /\ reader' = IF elt.kind = "ok" THEN Advance(reader) ELSE reader
                 /\ yielded' = IF elt.kind = "ok" THEN yielded + 1 ELSE yielded
                 /\ pc' = "batch"
                 /\ UNCHANGED <<unique_keys, column_names, chunk_data, out, ret,
                                ret_pc, streams, seen>>
            [] elt.kind = "err" /\ ~full -> Return("Err", out)
            [] elt.kind = "ok" /\ ~full ->
                 /\ chunk_data' = Append(chunk_data, elt.rec)
                 /\ reader' = Advance(reader)
                 /\ yielded' = yielded + 1
                 /\ UNCHANGED <<pc, unique_keys, column_names, current_elt, out,
                                ret, ret_pc, streams, seen>>
  /\ UNCHANGED <<file_path, source, changed, chunk_size, rerun, prev_out,
                 prev_chunk, parseVars, iterVars, openVars,
                 guiVars>>

\* lines 239-252 and the loop's next chunk: build the arrays and the batch,
\* write it; the next chunk starts with the element read ahead, if any
WriteBatch ==
  /\ pc = "batch"
  /\ \E write_ok \in BOOLEAN :
       LET arrays == BuildArrays(column_names, chunk_data)
           written == [out EXCEPT
                         !.batches = Append(@, NewBatch(out.header, arrays))]
       IN IF ~BatchOk(arrays) \/ ~write_ok THEN Return("Err", out)
          ELSE CASE current_elt.kind = "err" -> Return("Err", written)
                 [] current_elt.kind = "ok" ->
                      /\ out' = written
                      /\ chunk_data' = ChunkFirst(current_elt)
                      /\ current_elt' = NoneElt
                      /\ pc' = "fill"
                      /\ UNCHANGED <<reader, unique_keys, column_names, ret,
                                     ret_pc, yielded, streams, seen>>
                 [] current_elt.kind = "none" ->
                      /\ out' = written
                      /\ chunk_data' = << >>
                      /\ pc' = "close"
                      /\ streams' = Release(streams)
                      /\ UNCHANGED <<reader, unique_keys, column_names,
                                     current_elt, ret, ret_pc, yielded, seen>>
  /\ UNCHANGED <<file_path, source, changed, chunk_size, rerun, prev_out,
                 prev_chunk, parseVars, iterVars, openVars,
                 guiVars>>

\* lines 254-256: writer.close() writes the footer, or fails
Close ==
  /\ pc = "close"
  /\ \E close_ok \in BOOLEAN :
       IF close_ok
       THEN Return("Ok", [out EXCEPT !.closed = TRUE, !.closes = @ + 1])
       ELSE Return("Err", out)
  /\ UNCHANGED <<file_path, source, changed, chunk_size, rerun, prev_out,
                 prev_chunk, parseVars, iterVars, openVars,
                 guiVars>>

\* the environment appends a line to the log while a conversion runs
AppendLine ==
  /\ pc \notin {"idle", "done"}
  /\ Len(source) < MaxLines
  /\ \E l \in FileLines : source' = Append(source, l)
  /\ changed' = TRUE
  /\ UNCHANGED <<file_path, pc, chunk_size, reader, unique_keys, column_names,
                 chunk_data, current_elt, out, ret, ret_pc, yielded, rerun,
                 prev_out, prev_chunk, streams, seen, parseVars,
                 iterVars, openVars, guiVars>>

---------------------------------------------------------------------------
(* The filter of a curve: SQLFilter *)

\* most OR groups a filter is given, and most conditions a group is given
MaxGroups == 2

MaxConds == MaxGroups

\* the comparison operators the editor is made to select (three of the six
\* of SQLFilterComparisonOperation)
Operations == {"Equal", "NotEqual", "LessThan"}

\* Display for SQLFilterComparisonOperation
OperationSql(o) ==
  CASE o = "Equal" -> <<"=">>
    [] o = "NotEqual" -> <<"!", "=">>
    [] o = "LessThan" -> <<"<">>

\* the comparison the button Add Condition pushes: Number("0") = Number("0")
DefaultComparison ==
  [left |-> <<"0">>, comparison |-> "Equal", right |-> <<"0">>]

\* SQLFilterComparison::to_sql: format!("{} {} {}", left, comparison, right)
ComparisonSql(c) ==
  c.left \o <<" ">> \o OperationSql(c.comparison) \o <<" ">> \o c.right

\* SQLFilter::is_empty
is_empty(conds) ==
  conds = << >> \/ \A g \in 1..Len(conds) : conds[g] = << >>

\* SQLFilter::to_sql: every group in parentheses, its comparisons joined by
\* " OR ", the groups joined by " AND "
to_sql(conds) ==
  Join([g \in 1..Len(conds) |->
          <<"(">>
          \o Join([c \in 1..Len(conds[g]) |-> ComparisonSql(conds[g][c])],
                  <<" ", "O", "R", " ">>)
          \o <<")">>],
       <<" ", "A", "N", "D", " ">>)

to_sql_and_prefix(conds) ==
  IF ~is_empty(conds) THEN <<" ", "A", "N", "D", " ">> \o to_sql(conds)
  ELSE << >>

to_sql_where_prefix(conds) ==
  IF ~is_empty(conds) THEN <<" ", "W", "H", "E", "R", "E", " ">> \o to_sql(conds)
  ELSE << >>

\* Vec::remove(idx), idx counted from 1
RemoveAt(s, idx) == SubSeq(s, 1, idx - 1) \o SubSeq(s, idx + 1, Len(s))

---------------------------------------------------------------------------
(* The result cache of the GUI: the values of get_column_names, get_stat
   and get_histogram *)

\* most conversions that rewrite the parquet file of the table
MaxRewrites == 2

\* the table path of the curves (a ParsedString) and their column
Table == <<"t", ".", "p", "a", "r", "q", "u", "e", "t">>

Column == <<"k">>

\* the filters of the requests: none, and one group of one comparison
CacheFilters == { << >>, <<<<DefaultComparison>>>> }

ColumnNamesInputs == { [table |-> Table] }

StatInputs ==
  { [table |-> Table, column |-> Column, filters |-> f] : f \in CacheFilters }

\* HistogramInput: one curve, and the default number of bins or one more
HistogramInputs ==
  { [bins |-> b,
     curves |-> <<[id |-> 1, table |-> Table, filter |-> << >>,
                   x_key |-> Column, value_type |-> "Count",
                   y_key |-> Column]>>] : b \in {10, 11} }

CacheKeys ==
  {[kind |-> "column_names", input |-> i] : i \in ColumnNamesInputs}
    \cup {[kind |-> "stat", input |-> i] : i \in StatInputs}
    \cup {[kind |-> "histogram", input |-> i] : i \in HistogramInputs}

NoVersion == 0 - 1

\* the file behind the table path: how often it was rewritten, and whether
\* a query can read it
InitialFiles == { [version |-> 0, readable |-> r] : r \in BOOLEAN }

\* Cache of MyApp::default: three empty maps
EmptyCache ==
  [column_names |-> EmptyRecord, stat |-> EmptyRecord,
   histogram |-> EmptyRecord]

NoQueries == [k \in CacheKeys |-> 0]

NoGuiReturn ==
  [kind |-> "none", input |-> << >>, output |-> << >>, queried |-> FALSE]

\* what a failed computation is stored as: ColumnNamesOutput { names: vec![] },
\* StatOutput of zeros, HistogramOutput { data: vec![] }
EmptyOutput(kind) == [kind |-> kind, empty |-> TRUE, of |-> NoVersion]

\* the result of a query that ran against the file in the given version
Computed(kind, version) == [kind |-> kind, empty |-> FALSE, of |-> version]

\* panic!("... cache miss")
CacheMiss == [kind |-> "panic", empty |-> TRUE, of |-> NoVersion]

\* compute_column_names, compute_stat, compute_histogram: the query runs
\* against the file as it is now
Compute(kind, input, file) ==
  IF file.readable
  THEN [ok |-> TRUE, val |-> Computed(kind, file.version)]
  ELSE [ok |-> FALSE, val |-> EmptyOutput(kind)]

\* a cache that does not keep the result of a failed computation
StoreFailureSkipped(map, input, empty) == map

\* the Err arm: cache.<kind>.insert(input.clone(), <empty output>)
StoreFailure(map, input, empty) == Insert(map, input, empty)

\* the body of get_column_names, get_stat and get_histogram on their map:
\* compute and insert when the key is absent, then look the key up
CacheGet(map, kind, input, file) ==
  IF input \in DOMAIN map THEN [map |-> map, queried |-> FALSE]
  ELSE LET res == Compute(kind, input, file)
       IN [map |-> IF res.ok THEN Insert(map, input, res.val)
                   ELSE StoreFailure(map, input, res.val),
           queried |-> TRUE]

Lookup(map, input) == IF input \in DOMAIN map THEN map[input] ELSE CacheMiss

\* no request is at work
CacheIdle ==
  /\ parquet = [version |-> 0, readable |-> FALSE]
  /\ cache = EmptyCache
  /\ queries = NoQueries
  /\ gret = NoGuiReturn

\* the GUI is not at work
GuiIdle ==
  /\ CacheIdle
  /\ conditions = << >>

---------------------------------------------------------------------------
(* The states in which a part of the program is not at work *)

\* no consumer of iter() is at work
IterIdle ==
  /\ op = "iter"
  /\ ipc = "start"
  /\ pred = << >>
  /\ elts = << >>
  /\ reads = << >>
  /\ calls = << >>
  /\ results = << >>
  /\ acc = << >>
  /\ iret = NoReturn

\* no create_reader call is at work
OpenIdle ==
  /\ opath = << >>
  /\ content = NoFile
  /\ opened = NotOpened
  /\ polled = "none"
  /\ oall = FALSE

ParseIdle ==
  /\ line = << >>
  /\ all = FALSE
  /\ result = EmptyRecord
  /\ parsed = FALSE

Init ==
  /\ file_path \in Paths
  /\ source \in SeqsUpTo(FileLines, MaxLines)
  /\ changed = FALSE
  /\ pc = "idle"
  /\ chunk_size = 0
  /\ reader = ClosedReader
  /\ unique_keys = {}
  /\ column_names = << >>
  /\ chunk_data = << >>
  /\ current_elt = NoneElt
  /\ out = FreshOut
  /\ ret = "none"
  /\ ret_pc = "none"
  /\ yielded = 0
  /\ rerun = FALSE
  /\ prev_out = FreshOut
  /\ prev_chunk = 0
  /\ streams = NoStreams
  /\ seen = 0
  /\ ParseIdle
  /\ IterIdle
  /\ OpenIdle
  /\ GuiIdle

Next ==
  \/ ToParquet
  \/ DiscoverNext
  \/ SortNames
  \/ CreateWriter
  \/ OpenChunks
  \/ ChunkNext
  \/ WriteBatch
  \/ Close
  \/ AppendLine

Spec == Init /\ [][Next]_vars

---------------------------------------------------------------------------
(* The record extractor on its own: calls of parse_line *)

\* the tokens the lines of this specification are made of
Tokens ==
  { Marker,
    Marker \o <<"1">>,
    <<"x">> \o Marker,
    <<"k">>,
    <<"a">>,
    <<"1">>,
    <<"-", "2", ".", "5", "e", "1">> }

\* how a line's tokens are laid out: [lead, sep, trail]
Layouts ==
  { [lead |-> << >>, sep |-> <<" ">>, trail |-> << >>],
    [lead |-> <<" ">>, sep |-> <<"\t", " ">>, trail |-> <<" ", "\n">>] }

ParseLines ==
  { lay.lead \o Join(toks, lay.sep) \o lay.trail :
      toks \in SeqsUpTo(Tokens, MaxTokens), lay \in Layouts }

ConvIdle ==
  /\ file_path = <<"t", ".", "l", "o", "g">>
  /\ source = << >>
  /\ changed = FALSE
  /\ pc = "idle"
  /\ chunk_size = 0
  /\ reader = ClosedReader
  /\ unique_keys = {}
  /\ column_names = << >>
  /\ chunk_data = << >>
  /\ current_elt = NoneElt
  /\ out = FreshOut
  /\ ret = "none"
  /\ ret_pc = "none"
  /\ yielded = 0
  /\ rerun = FALSE
  /\ prev_out = FreshOut
  /\ prev_chunk = 0
  /\ streams = NoStreams
  /\ seen = 0

InitParse ==
  /\ ConvIdle
  /\ IterIdle
  /\ OpenIdle
  /\ line \in ParseLines
  /\ all \in BOOLEAN
  /\ result = EmptyRecord
  /\ parsed = FALSE
  /\ GuiIdle

\* a call StrapTrack::parse_line(line, all)
ParseLine ==
  /\ ~parsed
  /\ result' = parse_line(line, all)
  /\ parsed' = TRUE
  /\ UNCHANGED <<line, all, convVars, iterVars, openVars,
                 guiVars>>

\* the same line is parsed again in the other mode
OtherMode ==
  /\ parsed
  /\ all' = ~all
  /\ result' = EmptyRecord
  /\ parsed' = FALSE
  /\ UNCHANGED <<line, convVars, iterVars, openVars,
                 guiVars>>

NextParse ==
  \/ ParseLine
  \/ OtherMode

SpecParse == InitParse /\ [][NextParse]_vars

---------------------------------------------------------------------------
(* The consumers of iter(): a caller's polls, for_each_row, filter_rows and
   aggregate (specification SpecIter) *)

\* the polls a caller of iter() makes at most
MaxPolls == MaxLines + 2

Consumers == {"iter", "for_each_row", "filter_rows", "aggregate"}

\* filter_rows' predicates: the record has the key
FilterKeys == {<<"a">>, <<"b">>}

Predicate(key, row) == key \in DOMAIN row

\* aggregate's reducer: the accumulator lists the records it was given, in
\* the order it was given them
Reducer(a, row) == Append(a, row)

\* the outcome of the read_line call of a poll
ReadOutcome(src, rd, fail) ==
  IF fail THEN "err"
  ELSE IF rd.pos >= Len(src) THEN "eof"
  ELSE "line"

\* the reader after the read_line call: a line read is consumed, and a
\* failed read has consumed nothing (an I/O error) or the line it could not
\* decode (invalid UTF-8)
AfterRead(src, rd, fail) ==
  IF rd.pos >= Len(src) THEN {rd}
  ELSE IF fail THEN {rd, Advance(rd)}
  ELSE {Advance(rd)}

\* one call of next(): one read_line call, one element
PollStep(elt, fail) ==
  /\ elt = IterNext(source, reader, file_path, fail)
  /\ reader' \in AfterRead(source, reader, fail)
  /\ elts' = Append(elts, elt)
  /\ reads' = Append(reads, ReadOutcome(source, reader, fail))

\* a for_each_row loop that goes on whatever the callback returns
ForEachIgnoresFlag(elt, cont) ==
  CASE elt.kind = "err" -> "Err"
    [] elt.kind = "none" -> "Ok"
    [] OTHER -> "continue"

\* lines 173-178: what for_each_row does with an element, the callback
\* having returned cont for a record
ForEachOutcome(elt, cont) ==
  CASE elt.kind = "err" -> "Err"
    [] elt.kind = "none" -> "Ok"
    [] elt.kind = "ok" /\ ~cont -> "Ok"
    [] OTHER -> "continue"

\* a filter that keeps one copy of equal records
FilterPushDistinct(rows, row, keep) ==
  IF keep /\ (\A i \in 1..Len(rows) : rows[i] # row)
  THEN Append(rows, row)
  ELSE rows

\* lines 188-190: filter_rows' callback
FilterPush(rows, row, keep) ==
  IF keep THEN Append(rows, row) ELSE rows

\* a fold that passes over the records without entry
AggregateSkipEmpty(a, row) ==
  IF row = EmptyRecord THEN a ELSE Reducer(a, row)

\* line 205: acc = reducer(acc, &hm?)
AggregateApply(a, row) == Reducer(a, row)

convRest == <<changed, pc, chunk_size, unique_keys, column_names, chunk_data,
              current_elt, out, ret, ret_pc, yielded, rerun, prev_out,
              prev_chunk, streams, seen>>

InitIter ==
  /\ file_path \in Paths
  /\ source \in SeqsUpTo(FileLines, MaxLines)
  /\ changed = FALSE
  /\ pc = "idle"
  /\ chunk_size = 0
  /\ reader = ClosedReader
  /\ unique_keys = {}
  /\ column_names = << >>
  /\ chunk_data = << >>
  /\ current_elt = NoneElt
  /\ out = FreshOut
  /\ ret = "none"
  /\ ret_pc = "none"
  /\ yielded = 0
  /\ rerun = FALSE
  /\ prev_out = FreshOut
  /\ prev_chunk = 0
  /\ streams = NoStreams
  /\ seen = 0
  /\ ParseIdle
  /\ OpenIdle
  /\ op \in Consumers
  /\ ipc = "start"
  /\ pred \in (IF op = "filter_rows" THEN FilterKeys ELSE {<< >>})
  /\ elts = << >>
  /\ reads = << >>
  /\ calls = << >>
  /\ results = << >>
  /\ acc = << >>
  /\ iret = NoReturn
  /\ GuiIdle

\* lines 155-166: iter(), called by every consumer first; create_reader's
\* error is the consumer's return value
IterOpen ==
  /\ ipc = "start"
  /\ \E open_ok \in BOOLEAN :
       IF open_ok
       THEN /\ reader' = OpenedReader
            /\ ipc' = "running"
            /\ iret' = iret
       ELSE /\ reader' = reader
            /\ ipc' = "done"
            /\ iret' = ErrReturn
  /\ UNCHANGED <<file_path, source, convRest, parseVars, openVars, guiVars, op, pred,
                 elts, reads, calls, results, acc>>

\* a caller of iter() polls the iterator, whatever it returned before
IterPoll ==
  /\ op = "iter"
  /\ ipc = "running"
  /\ Len(elts) < MaxPolls
  /\ \E fail \in BOOLEAN : \E elt \in {IterNext(source, reader, file_path, fail)} :
       PollStep(elt, fail)
  /\ UNCHANGED <<file_path, source, convRest, parseVars, openVars, guiVars, op, ipc,
                 pred, calls, results, acc, iret>>

\* lines 173-178: one turn of for_each_row's loop with a caller's callback,
\* which returns what it likes
ForEachRow ==
  /\ op = "for_each_row"
  /\ ipc = "running"
  /\ \E fail, cont \in BOOLEAN :
       \E elt \in {IterNext(source, reader, file_path, fail)} :
         /\ PollStep(elt, fail)
         /\ calls' = IF elt.kind = "ok"
                     THEN Append(calls, [rec |-> elt.rec, ret |-> cont])
                     ELSE calls
         /\ IF ForEachOutcome(elt, cont) = "continue"
            THEN UNCHANGED <<ipc, iret>>
            ELSE /\ ipc' = "done"
                 /\ iret' = [kind |-> ForEachOutcome(elt, cont), val |-> << >>]
  /\ UNCHANGED <<file_path, source, convRest, parseVars, openVars, guiVars, op, pred,
                 results, acc>>

\* lines 182-194: one turn of the loop filter_rows runs through for_each_row;
\* its callback keeps the rows the predicate holds of and returns true
FilterRows ==
  /\ op = "filter_rows"
  /\ ipc = "running"
  /\ \E fail \in BOOLEAN :
       \E elt \in {IterNext(source, reader, file_path, fail)} :
         /\ PollStep(elt, fail)
         /\ calls' = IF elt.kind = "ok"
                     THEN Append(calls, [rec |-> elt.rec, ret |-> TRUE])
                     ELSE calls
         /\ results' = IF elt.kind = "ok"
                       THEN FilterPush(results, elt.rec,
                                       Predicate(pred, elt.rec))
                       ELSE results
         /\ CASE ForEachOutcome(elt, TRUE) = "continue" ->
                   UNCHANGED <<ipc, iret>>
              [] ForEachOutcome(elt, TRUE) = "Ok" ->
                   /\ ipc' = "done"
                   /\ iret' = OkReturn(results)
              [] OTHER ->
                   /\ ipc' = "done"
                   /\ iret' = ErrReturn
  /\ UNCHANGED <<file_path, source, convRest, parseVars, openVars, guiVars, op, pred,
                 acc>>

\* lines 203-207: one turn of aggregate's loop
Aggregate ==
  /\ op = "aggregate"
  /\ ipc = "running"
  /\ \E fail \in BOOLEAN :
       \E elt \in {IterNext(source, reader, file_path, fail)} :
         /\ PollStep(elt, fail)
         /\ CASE elt.kind = "err" ->
                   /\ ipc' = "done"
                   /\ iret' = ErrReturn
                   /\ acc' = acc
              [] elt.kind = "none" ->
                   /\ ipc' = "done"
                   /\ iret' = OkReturn(acc)
                   /\ acc' = acc
              [] OTHER ->
                   /\ acc' = AggregateApply(acc, elt.rec)
                   /\ UNCHANGED <<ipc, iret>>
  /\ UNCHANGED <<file_path, source, convRest, parseVars, openVars, guiVars, op, pred,
                 calls, results>>

NextIter ==
  \/ IterOpen
  \/ IterPoll
  \/ ForEachRow
  \/ FilterRows
  \/ Aggregate

SpecIter == InitIter /\ [][NextIter]_vars

---------------------------------------------------------------------------
(* Opening the source: create_reader (specification SpecOpen) *)

\* the entries a zip archive has at most
MaxEntries == 2

\* the path names a StrapTrack is opened with: a stem and an ending
OpenStems ==
  { <<"t">>,
    <<"t", ".", "g", "z">>,
    <<"T", ".", "s", "t", "r", "a", "p">> }

OpenEndings ==
  { << >>,
    <<".", "g", "z">>,
    <<".", "G", "Z">>,
    <<".", "g", "z", "i", "p">>,
    <<".", "z", "s", "t">>,
    <<".", "Z", "s", "t", "d">>,
    <<".", "z", "i", "p">>,
    <<".", "Z", "I", "P">>,
    <<"g", "z">>,
    <<".", "z", "i", "p", ".", "t", "x", "t">>,
    <<".", "l", "o", "g">> }

OpenPaths == {stem \o ending : stem \in OpenStems, ending \in OpenEndings}

\* what the file at the path holds: nothing that can be opened, text, a gzip
\* or zstd stream, or a zip archive of some entries, whose first entry can
\* be read or not
FileContents ==
  {NoFile}
    \cup {[exists |-> TRUE, format |-> f, entries |-> 0, readable |-> TRUE] :
            f \in {"text", "gzip", "zstd"}}
    \cup {[exists |-> TRUE, format |-> "zip", entries |-> n, readable |-> r] :
            n \in 0..MaxEntries, r \in BOOLEAN}

\* a choice of the decoder after what the file holds
ChooseDecoderSniffing(path_str) ==
  CASE content.format = "gzip" -> "gzip"
    [] content.format = "zstd" -> "zstd"
    [] content.format = "zip" -> "zip"
    [] OTHER -> "raw"

\* lines 70-100: the branch create_reader takes for the lower-cased path
ChooseDecoder(path_str) ==
  IF \/ EndsWith(path_str, <<".", "g", "z">>)
     \/ EndsWith(path_str, <<".", "g", "z", "i", "p">>)
  THEN "gzip"
  ELSE IF \/ EndsWith(path_str, <<".", "z", "s", "t">>)
          \/ EndsWith(path_str, <<".", "z", "s", "t", "d">>)
  THEN "zstd"
  ELSE IF EndsWith(path_str, <<".", "z", "i", "p">>)
  THEN "zip"
  ELSE "raw"

\* an archive reader that takes the archive's last entry
ZipEntryLast(file) == file.entries - 1

\* line 92: archive.by_index(0)
ZipEntry(file) == 0

OpenErr(decoder, err) ==
  [kind |-> "Err", decoder |-> decoder, err |-> err, entry |-> NoEntry]
OpenOk(decoder) ==
  [kind |-> "Ok", decoder |-> decoder, err |-> "none", entry |-> NoEntry]
OpenOkEntry(decoder, entry) ==
  [kind |-> "Ok", decoder |-> decoder, err |-> "none", entry |-> entry]

\* create_reader: File::open fails for a file that cannot be opened; the
\* gzip and zstd decoders are constructed without a look at the bytes; the
\* zip branch reads the archive's directory, wants an entry and copies the
\* entry at index 0 into memory; any other path is read as it is
create_reader(path, file) ==
  IF ~file.exists THEN OpenErr("none", "NotFound")
  ELSE LET path_str == LowerStr(path)
           decoder == ChooseDecoder(path_str)
       IN IF decoder # "zip" THEN OpenOk(decoder)
          ELSE IF file.format # "zip" THEN OpenErr(decoder, "InvalidData")
          ELSE IF file.entries = 0 THEN OpenErr(decoder, "InvalidData")
          ELSE IF ~file.readable THEN OpenErr(decoder, "InvalidData")
          ELSE OpenOkEntry(decoder, ZipEntry(file))

\* the first read_line through the reader create_reader returned: the gzip
\* and zstd decoders meet the stream's header now and fail on bytes that are
\* not theirs; bytes read raw decode as text or do not; the archive's entry
\* is in memory
FirstRead(decoder, file) ==
  CASE decoder \in {"gzip", "zstd"} ->
         IF file.format = decoder THEN {"ok"} ELSE {"err"}
    [] decoder = "raw" ->
         IF file.format = "text" THEN {"ok"} ELSE {"ok", "err"}
    [] OTHER -> {"ok"}

InitOpen ==
  /\ ConvIdle
  /\ ParseIdle
  /\ IterIdle
  /\ opath \in OpenPaths
  /\ content \in FileContents
  /\ opened = NotOpened
  /\ polled = "none"
  /\ oall = FALSE
  /\ GuiIdle

\* lines 155-166: iter() decides the flag all from the path and calls
\* create_reader
CreateReader ==
  /\ opened = NotOpened
  /\ oall' = IterAll(opath)
  /\ opened' = create_reader(opath, content)
  /\ UNCHANGED <<opath, content, polled, convVars, parseVars, iterVars,
                 guiVars>>

\* lines 30-40: the first poll of the iterator iter() returned
FirstPoll ==
  /\ opened.kind = "Ok"
  /\ polled = "none"
  /\ polled' \in FirstRead(opened.decoder, content)
  /\ UNCHANGED <<opath, content, opened, oall, convVars, parseVars, iterVars,
                 guiVars>>

NextOpen ==
  \/ CreateReader
  \/ FirstPoll

SpecOpen == InitOpen /\ [][NextOpen]_vars

---------------------------------------------------------------------------
(* The flag all of iter() and the lines it lets through (specification
   SpecFlag) *)

\* the path names of the files iterated over
FlagPaths ==
  { <<"t", ".", "s", "t", "r", "a", "p">>,
    <<"T", ".", "S", "T", "R", "A", "P">>,
    <<"t", ".", "s", "t", "r", "a", "p", ".", "g", "z">>,
    <<"t", ".", "S", "t", "r", "a", "p", ".", "G", "Z", "I", "P">>,
    <<"t", ".", "s", "t", "r", "a", "p", ".", "z", "s", "t">>,
    <<"t", ".", "s", "t", "r", "a", "p", ".", "z", "s", "t", "d">>,
    <<"t", ".", "s", "t", "r", "a", "p", ".", "z", "i", "p">>,
    <<"t", ".", "s", "t", "r", "a", "p", ".", "g", "z", ".", "z", "i", "p">>,
    <<"t", ".", "s", "t", "r", "a", "p", ".", "t", "x", "t">>,
    <<"s", "t", "r", "a", "p">>,
    <<"t", ".", "l", "o", "g">>,
    <<"t", ".", "l", "o", "g", ".", "g", "z">>,
    <<"t", ".", "z", "i", "p">> }

\* the lines of the files: up to MaxTokens - 1 tokens, single spaces
FlagLines ==
  {Join(toks, <<" ">>) : toks \in SeqsUpTo(Tokens, MaxTokens - 1)}

InitFlag ==
  /\ ConvIdle
  /\ IterIdle
  /\ content = NoFile
  /\ opened = NotOpened
  /\ polled = "none"
  /\ oall = FALSE
  /\ opath \in FlagPaths
  /\ line \in FlagLines
  /\ all = FALSE
  /\ result = EmptyRecord
  /\ parsed = FALSE
  /\ GuiIdle

\* lines 155-166 and 30-40: iter() over a file of the one line, and the
\* record its first poll yields
IterLine ==
  /\ ~parsed
  /\ oall' = IterAll(opath)
  /\ result' = IterNext(<<line>>, OpenedReader, opath, FALSE).rec
  /\ parsed' = TRUE
  /\ UNCHANGED <<opath, content, opened, polled, line, all, convVars,
                 iterVars,
                 guiVars>>

NextFlag == IterLine

SpecFlag == InitFlag /\ [][NextFlag]_vars

---------------------------------------------------------------------------
(* The filter editor of a curve: the buttons of MyApp::update that change
   its SQLFilter (specification SpecFilter) *)

\* the conversion, the extractor, the consumers and create_reader are not at
\* work
LibIdle ==
  /\ ConvIdle
  /\ ParseIdle
  /\ IterIdle
  /\ OpenIdle

\* a curve as Add Histogram pushes it: filter: SQLFilter { conditions: vec![] }
InitFilter ==
  /\ LibIdle
  /\ CacheIdle
  /\ conditions = << >>

\* the button Add Filter Group
AddGroup ==
  /\ Len(conditions) < MaxGroups
  /\ conditions' = Append(conditions, << >>)
  /\ UNCHANGED <<convVars, parseVars, iterVars, openVars, cacheVars>>

\* the button Remove Group of group g
RemoveGroup ==
  /\ \E g \in 1..Len(conditions) : conditions' = RemoveAt(conditions, g)
  /\ UNCHANGED <<convVars, parseVars, iterVars, openVars, cacheVars>>

\* the button Add Condition of group g
AddCondition ==
  /\ \E g \in 1..Len(conditions) :
       /\ Len(conditions[g]) < MaxConds
       /\ conditions' =
            [conditions EXCEPT ![g] = Append(@, DefaultComparison)]
  /\ UNCHANGED <<convVars, parseVars, iterVars, openVars, cacheVars>>

\* the button x of condition c of group g
RemoveCondition ==
  /\ \E g \in 1..Len(conditions) : \E c \in 1..Len(conditions[g]) :
       conditions' = [conditions EXCEPT ![g] = RemoveAt(@, c)]
  /\ UNCHANGED <<convVars, parseVars, iterVars, openVars, cacheVars>>

\* the operator box of condition c of group g
SelectOperation ==
  /\ \E g \in 1..Len(conditions) : \E c \in 1..Len(conditions[g]) :
       \E o \in Operations \ {conditions[g][c].comparison} :
         conditions' = [conditions EXCEPT ![g][c].comparison = o]
  /\ UNCHANGED <<convVars, parseVars, iterVars, openVars, cacheVars>>

NextFilter ==
  \/ AddGroup
  \/ RemoveGroup
  \/ AddCondition
  \/ RemoveCondition
  \/ SelectOperation

SpecFilter == InitFilter /\ [][NextFilter]_vars

---------------------------------------------------------------------------
(* The result cache of the GUI at work: the requests of MyApp::update and
   the conversion a file selection runs (specification SpecCache) *)

InitCache ==
  /\ LibIdle
  /\ conditions = << >>
  /\ parquet \in InitialFiles
  /\ cache = EmptyCache
  /\ queries = NoQueries
  /\ gret = NoGuiReturn

\* a call get_<kind>(cache, sql, input) while the file is as given
Request(kind, input, file) ==
  LET got == CacheGet(cache[kind], kind, input, file)
      key == [kind |-> kind, input |-> input]
  IN /\ cache' = [cache EXCEPT ![kind] = got.map]
     /\ queries' = IF got.queried THEN [queries EXCEPT ![key] = @ + 1]
                   ELSE queries
     /\ gret' = [kind |-> kind, input |-> input,
                 output |-> Lookup(got.map, input), queried |-> got.queried]

GetColumnNames ==
  /\ \E input \in ColumnNamesInputs : Request("column_names", input, parquet)
  /\ UNCHANGED <<parquet, conditions, convVars, parseVars, iterVars,
                 openVars>>

GetStat ==
  /\ \E input \in StatInputs : Request("stat", input, parquet)
  /\ UNCHANGED <<parquet, conditions, convVars, parseVars, iterVars,
                 openVars>>

GetHistogram ==
  /\ \E input \in HistogramInputs : Request("histogram", input, parquet)
  /\ UNCHANGED <<parquet, conditions, convVars, parseVars, iterVars,
                 openVars>>

\* a file that is no .parquet is selected: to_parquet rewrites the file of
\* the table; when it returns Ok, get_column_names is asked for the table
SelectFile ==
  /\ parquet.version < MaxRewrites
  /\ \E converted \in BOOLEAN :
       LET file == [version |-> parquet.version + 1, readable |-> converted]
       IN /\ parquet' = file
          /\ IF converted
             THEN \E input \in ColumnNamesInputs :
                    Request("column_names", input, file)
             ELSE UNCHANGED <<cache, queries, gret>>
  /\ UNCHANGED <<conditions, convVars, parseVars, iterVars, openVars>>

NextCache ==
  \/ GetColumnNames
  \/ GetStat
  \/ GetHistogram
  \/ SelectFile

SpecCache == InitCache /\ [][NextCache]_vars

---------------------------------------------------------------------------
(* Properties of the conversion (specification Spec) *)

\* the record of each line a source can hold, in either mode
LineRecords ==
  [l \in FileLines |-> [a \in BOOLEAN |-> parse_line(l \o <<"\n">>, a)]]

\* the record of the i-th line of the source
SourceRecord(i) == LineRecords[source[i]][IterAll(file_path)]

\* the cell a record has in column c: its value, or null
ExpectedCell(rec, c) ==
  IF c \in DOMAIN rec THEN [some |-> TRUE, val |-> rec[c]]
  ELSE [some |-> FALSE, val |-> NanVal(FALSE)]

\* the record a row stands for: its non-null cells under the header's names
RecordOfRow(names, row) ==
  [c \in {names[j] : j \in {n \in 1..Len(names) : row[n].some}} |->
     row[CHOOSE j \in 1..Len(names) : names[j] = c].val]

OutRows == Rows(out.batches)

\* C1: every batch has exactly one array per schema column, each as long as
\* the batch's row count, and row i holds in column c the value record i has
\* for c, or null when record i has no key c (whether or not the source grew)
C1_BatchCells ==
  LET rows == OutRows IN
  /\ \A k \in 1..Len(out.batches) :
       /\ Len(out.batches[k].arrays) = Len(out.header)
       /\ \A j \in 1..Len(out.header) :
            Len(out.batches[k].arrays[j]) = out.batches[k].num_rows
  /\ Len(rows) <= Len(source)
  /\ \A i \in 1..Len(rows) :
       LET rec == SourceRecord(i)
       IN \A j \in 1..Len(out.header) :
            rows[i][j] = ExpectedCell(rec, out.header[j])

\* C1 witness: a finished conversion of an unchanged three-line source in two
\* batches, with a null and a value in the last row
C1_Witness ==
  /\ pc = "done" /\ ret = "Ok" /\ ~changed
  /\ Len(out.batches) = 2 /\ Len(OutRows) = 3 /\ Len(out.header) = 3
  /\ \E j \in 1..3 : ~OutRows[3][j].some
  /\ \E j \in 1..3 : OutRows[3][j].some

C3_ChunkIndependent ==
  (rerun /\ pc = "done" /\ ret = "Ok" /\ ~changed) =>
    /\ out.header = prev_out.header
    /\ OutRows = Rows(prev_out.batches)

\* C3 witness: the two conversions cut three rows into different batches
C3_Witness ==
  /\ rerun /\ pc = "done" /\ ret = "Ok" /\ ~changed
  /\ Len(OutRows) = 3
  /\ Len(out.batches) # Len(prev_out.batches)

\* the keys of the first n records of the source
KeysUpTo(n) == UNION {DOMAIN SourceRecord(i) : i \in 1..n}

\* C4: the key set of schema discovery is the union of the key sets of the
\* records the pass has yielded, while it runs and when it returns
C4_KeyUnion ==
  /\ pc = "discover" => unique_keys = KeysUpTo(yielded)
  /\ pc = "sort" => Range(column_names) = KeysUpTo(yielded)

\* C4 witness: get_column_names returns three names after three records, one
\* of them empty
C4_Witness ==
  /\ pc = "sort" /\ yielded = 3
  /\ Cardinality(Range(column_names)) = 3
  /\ \E i \in 1..3 : SourceRecord(i) = EmptyRecord

\* C5 as claimed: what get_column_names returns is sorted
C5_ReturnedSorted ==
  pc = "sort" => IsSorted(column_names)

\* C5 amended: get_column_names returns the names without duplicates, in no
\* particular order; after to_parquet's sort they are strictly increasing
C5_SortedByToParquet ==
  /\ pc = "sort" => Cardinality(Range(column_names)) = Len(column_names)
  /\ pc \in {"create", "open", "fill", "batch", "close"} =>
       IsSorted(column_names)

\* C5 witness: to_parquet holds three sorted names
C5_Witness ==
  /\ pc = "create"
  /\ Len(column_names) = 3

\* C6: every batch written has the columns of the header the writer was
\* opened with, which is the sorted column_names
C6_SchemaFixed ==
  /\ \A k \in 1..Len(out.batches) :
       /\ out.batches[k].schema = out.header
       /\ Len(out.batches[k].arrays) = Len(out.header)
  /\ out.writer => (out.header = column_names /\ IsSorted(out.header))

\* C6 witness: two batches under a three-column header, the second with a
\* column that is all null
C6_Witness ==
  /\ Len(out.batches) = 2
  /\ Len(out.header) = 3
  /\ \E j \in 1..3 : \A i \in 1..out.batches[2].num_rows :
       ~out.batches[2].arrays[j][i].some

\* C7: the container is closed at most once, exactly when to_parquet returns
\* Ok; a conversion that fails or panics leaves it unclosed
C7_CloseOnlyOnSuccess ==
  /\ out.closes <= 1
  /\ out.closed <=> out.closes = 1
  /\ out.closed <=> (pc = "done" /\ ret = "Ok")
  /\ (pc = "done" /\ ret_pc \in {"fill", "batch", "close"} /\ ~out.closed) =>
       ret = "Err"

\* C7 witness: a conversion fails at a batch after one batch was written
C7_Witness ==
  /\ pc = "done" /\ ret = "Err" /\ ret_pc = "batch"
  /\ Len(out.batches) >= 1
  /\ ~out.closed

\* C8: until schema discovery has returned the output is untouched, and a
\* failure of the open or of a read of pass one returns Err with the output
\* not created, no writer and no batch
C8_DiscoveryFailure ==
  /\ pc \in {"discover", "sort"} =>
       (~out.created /\ ~out.writer /\ out.batches = << >>)
  /\ (pc = "done" /\ ret_pc \in {"idle", "done", "discover"}) =>
       (ret = "Err" /\ ~out.created /\ ~out.writer /\ out.batches = << >>)

\* C8 witness: a read of pass one fails in a second conversion
C8_Witness ==
  /\ pc = "done" /\ ret = "Err" /\ ret_pc = "discover"
  /\ rerun /\ prev_out.closed

\* C19: two successful conversions of the same unchanged source with the
\* same chunk size give the same output file: the same columns in the same
\* order and the same batches of the same rows, values and nulls
C19_SameOutput ==
  (rerun /\ pc = "done" /\ ret = "Ok" /\ ~changed /\ chunk_size = prev_chunk)
    => out = prev_out

\* C19 witness: both conversions wrote three columns and two batches, with a
\* null in them
C19_Witness ==
  /\ rerun /\ pc = "done" /\ ret = "Ok" /\ ~changed
  /\ chunk_size = prev_chunk
  /\ Len(out.header) = 3
  /\ Len(out.batches) = 2
  /\ \E i \in 1..Len(OutRows) : \E j \in 1..Len(out.header) :
       ~OutRows[i][j].some

\* C24: to_parquet holds at most one source stream at a time, none between
\* the end of pass one and the opening of pass two, and none once it has
\* returned, whether with Ok or with an error; a conversion that returns Ok
\* has opened the source twice (the second conversion of a StrapTrack twice
\* again)
C24_OneStreamAtATime ==
  /\ streams.live <= 1
  /\ pc \in {"discover", "fill", "batch"} => streams.live = 1
  /\ pc \in {"idle", "sort", "create", "open", "close", "done"} =>
       streams.live = 0
  /\ (pc = "done" /\ ret = "Ok") =>
       streams.opened = IF rerun THEN 4 ELSE 2

\* C24 witness: a conversion that wrote a batch in pass two has returned an
\* error and holds no stream
C24_Witness ==
  /\ pc = "done"
  /\ ret = "Err"
  /\ ret_pc \in {"fill", "batch"}
  /\ out.batches # << >>
  /\ streams = [opened |-> 2, live |-> 0]

\* a first conversion returned Ok after two batches
C24_WitnessOk ==
  /\ pc = "done" /\ ret = "Ok" /\ ~rerun
  /\ Len(out.batches) = 2
  /\ streams = [opened |-> 2, live |-> 0]

\* the records to_parquet holds in pass two: those of the chunk being
\* collected and the one read ahead
Held == Len(chunk_data) + (IF current_elt.kind = "ok" THEN 1 ELSE 0)

\* the batches written are full but possibly the last, none is empty, and
\* batch k holds the records of the lines that follow those of batch k - 1
BatchesConsecutive ==
  \A k \in 1..Len(out.batches) :
    LET b == out.batches[k]
    IN /\ b.num_rows >= 1
       /\ b.num_rows <= chunk_size
       /\ k < Len(out.batches) => b.num_rows = chunk_size
       /\ (k - 1) * chunk_size + b.num_rows <= Len(source)
       /\ \A i \in 1..b.num_rows : \A j \in 1..Len(out.header) :
            b.arrays[j][i] =
              ExpectedCell(SourceRecord((k - 1) * chunk_size + i),
                           out.header[j])

\* ceil(n / c)
CeilDiv(n, c) == (n + c - 1) \div c

\* a conversion of an unchanged source that returns Ok has written
\* ceil(N / c) batches and closed the container
BatchCount ==
  (pc = "done" /\ ret = "Ok" /\ ~changed) =>
    /\ Len(out.batches) = CeilDiv(Len(source), chunk_size)
    /\ out.closed

C25_WitnessEmpty ==
  /\ pc = "done" /\ ret = "Ok" /\ ~changed
  /\ source = << >>
  /\ out.batches = << >>
  /\ out.closed

\* C26: to_parquet comes back with Ok or Err for every chunk_size the command
\* line accepts (any usize, 0 included); it never panics
C26_ReturnsForEveryChunkSize == ret \in {"none", "Ok", "Err"}

\* the chunk about to be converted holds a line that was appended after pass
\* one had read to end of stream
LateInChunk ==
  /\ pc = "batch"
  /\ yielded - (IF current_elt.kind = "ok" THEN 1 ELSE 0) > seen

\* from the end of pass one on, the column set is the schema pass one
\* discovered, whatever is appended; the rows written hold the values of their
\* lines for these columns only
AppendedKept ==
  /\ pc \in {"sort", "create", "open", "fill", "batch", "close"} =>
       /\ Range(column_names) = KeysUpTo(seen)
       /\ Len(column_names) = Cardinality(KeysUpTo(seen))
  /\ out.writer => out.header = column_names
  /\ \A i \in 1..Len(OutRows) :
       \A j \in 1..Len(out.header) :
         OutRows[i][j] = ExpectedCell(SourceRecord(i), out.header[j])

\* C27: lines appended after pass one read to end of stream and read by pass
\* two cause no error (their batch is built), become rows, and leave the
\* column set the schema of pass one, keys outside it being left out
C27_AppendedBecomeRows ==
  /\ AppendedKept
  /\ LateInChunk => BatchOk(BuildArrays(column_names, chunk_data))

---------------------------------------------------------------------------
(* Properties of the extractor (specification SpecParse) *)

\* a marker: a token "@strap" followed by digits only
IsMarkerToken(tok) ==
  /\ StartsWithAt(tok, Marker, 1)
  /\ AllDigits(Suffix(tok, Len(Marker) + 1))

LineTokens == SplitWhitespace(line)

MarkerPositions == {i \in 1..Len(LineTokens) : IsMarkerToken(LineTokens[i])}

HasMarker == MarkerPositions # {}

\* the tokens after the first marker of the line
TokensAfterMarker ==
  Suffix(LineTokens, (CHOOSE i \in MarkerPositions :
                        \A j \in MarkerPositions : i <= j) + 1)

C10_MarkerRecord ==
  (parsed /\ HasMarker) =>
    /\ result = parse_line(line, ~all)
    /\ result = InsertPairs(EmptyRecord, TokensAfterMarker)

\* the tokens that remain once the marker is stripped: those after the first
\* marker token, or the whole line when it has none
StrippedTokens == IF HasMarker THEN TokensAfterMarker ELSE LineTokens

\* the number of (key, value) positions of a token sequence
PairCount(toks) == Len(toks) \div 2

\* every token is paired and every value token is numeric
AllValidPairs(toks) ==
  /\ Len(toks) % 2 = 0
  /\ \A i \in 1..PairCount(toks) : ParseF64(toks[2 * i]).ok

PairedTokens == SplitWhitespace(StripMarker(Trim(line)))

\* the line reaches the pairing loop
Paired == parsed /\ (all \/ Find(Trim(line), Marker) # 0)

ValidPairs(toks) ==
  {i \in 1..PairCount(toks) : ParseF64(toks[2 * i]).ok}

\* the valid pairs with a given key
PairsOf(toks, key) == {i \in ValidPairs(toks) : toks[2 * i - 1] = key}

\* a set's largest member
Largest(S) == CHOOSE i \in S : \A j \in S : j <= i

\* C12: only the offending item is dropped: the record holds exactly the
\* keys of the pairs with a numeric value, whatever unpaired token or
\* non-numeric pair the line also has, and a key of one valid pair has that
\* pair's value; a line skipped in strict mode gives the empty record
C12_DropOnlyOffending ==
  LET toks == PairedTokens
  IN /\ (parsed /\ ~Paired) => result = EmptyRecord
     /\ Paired =>
          /\ DOMAIN result = {toks[2 * i - 1] : i \in ValidPairs(toks)}
          /\ \A i \in ValidPairs(toks) :
               PairsOf(toks, toks[2 * i - 1]) = {i} =>
                 result[toks[2 * i - 1]] = ParseF64(toks[2 * i]).val

\* a line with a non-numeric pair before a valid pair, which is kept
C12_Witness ==
  LET toks == PairedTokens
  IN /\ Paired
     /\ \E i, j \in 1..PairCount(toks) :
          /\ i < j
          /\ ~ParseF64(toks[2 * i]).ok
          /\ j \in ValidPairs(toks)
          /\ toks[2 * j - 1] \in DOMAIN result

\* a line with a valid pair, which is kept, before a trailing unpaired token
C12_WitnessTrailing ==
  LET toks == PairedTokens
  IN /\ Paired
     /\ Len(toks) % 2 = 1
     /\ ValidPairs(toks) # {}
     /\ result # EmptyRecord

\* C13: a key of several valid pairs has the value of the last of them, and
\* a later non-numeric pair with the key leaves that value in place
C13_LastValidWins ==
  LET toks == PairedTokens
  IN Paired =>
       \A i \in ValidPairs(toks) :
         LET key == toks[2 * i - 1]
         IN /\ key \in DOMAIN result
            /\ result[key] = ParseF64(toks[2 * Largest(PairsOf(toks, key))]).val

\* a key with two valid pairs of different values, and a key whose valid pair
\* is followed by a non-numeric pair
C13_Witness ==
  LET toks == PairedTokens
  IN /\ Paired
     /\ \E i, j \in ValidPairs(toks) :
          /\ i < j
          /\ toks[2 * i - 1] = toks[2 * j - 1]
          /\ ParseF64(toks[2 * i]).val # ParseF64(toks[2 * j]).val
          /\ result[toks[2 * i - 1]] = ParseF64(toks[2 * j]).val

C13_WitnessInvalidLater ==
  LET toks == PairedTokens
  IN /\ Paired
     /\ \E i \in ValidPairs(toks) : \E j \in 1..PairCount(toks) :
          /\ i < j
          /\ toks[2 * i - 1] = toks[2 * j - 1]
          /\ ~ParseF64(toks[2 * j]).ok
          /\ result[toks[2 * i - 1]] = ParseF64(toks[2 * i]).val

\* the record of the pairs at the fixed positions (1, 2), (3, 4), ... of a
\* token sequence: the keys of the pairs with a numeric value, each with the
\* value of the last such pair
PositionalRecord(toks) ==
  [key \in {toks[2 * i - 1] : i \in ValidPairs(toks)} |->
     ParseF64(toks[2 * Largest(PairsOf(toks, key))]).val]

\* C28: the pairs are the tokens at positions (2i, 2i+1), counted from 0 at
\* the first token left by the marker stripping, whichever pairs were dropped:
\* the record is the one of these positions, so after a key without a value
\* the following tokens are paired as they stand, shifted
C28_PairsByPosition ==
  Paired => result = PositionalRecord(PairedTokens)

\* a key, a second non-numeric token and two numbers: the first number is
\* taken as a key and the token after the key that lacks its value is not
C28_Witness ==
  LET toks == PairedTokens
  IN /\ Paired
     /\ Len(toks) = 4
     /\ ~ParseF64(toks[2]).ok
     /\ ParseF64(toks[3]).ok
     /\ ParseF64(toks[4]).ok
     /\ toks[2] # toks[3]
     /\ DOMAIN result = {toks[3]}
     /\ result[toks[3]] = ParseF64(toks[4]).val

---------------------------------------------------------------------------
(* Properties of the consumers of iter() (specification SpecIter) *)

NoReadFailed == \A i \in 1..Len(reads) : reads[i] # "err"

\* the records of the first n lines of the source, in line order
SourceRecords(n) == [i \in 1..n |-> SourceRecord(i)]

\* C14: while no read has failed, the elements iter() has yielded are
\* Ok(parse_line(line, all)) for the lines in order, one per read_line call,
\* and None once every line has been yielded
C14_OkPerLine ==
  NoReadFailed =>
    /\ Len(reads) = Len(elts)
    /\ \A i \in 1..Len(elts) :
         elts[i] = IF i <= Len(source) THEN OkElt(SourceRecord(i))
                   ELSE NoneElt

\* a source with an unmarked, a marked and a blank line was polled to its end
C14_Witness ==
  /\ op = "iter"
  /\ NoReadFailed
  /\ Len(source) = MaxLines
  /\ Range(source) = FileLines
  /\ Len(elts) = Len(source) + 1
  /\ elts[Len(elts)] = NoneElt
  /\ \E i \in 1..Len(source) : elts[i] = OkElt(EmptyRecord)

\* C15: every poll makes one read_line call and yields one element, Err
\* exactly when that read failed, whatever the polls before it yielded: Ok
\* for a line and None at the end of the input also after an Err
C15_ErrPerFailedRead ==
  /\ Len(reads) = Len(elts)
  /\ \A i \in 1..Len(elts) :
       elts[i].kind = CASE reads[i] = "err" -> "err"
                        [] reads[i] = "eof" -> "none"
                        [] OTHER -> "ok"

\* after an Err the iterator has yielded an Ok, another Err and None
C15_Witness ==
  /\ op = "iter"
  /\ \E i, j, k, l \in 1..Len(elts) :
       /\ i < j /\ j < k /\ k < l
       /\ elts[i].kind = "err"
       /\ elts[j].kind = "ok"
       /\ elts[k].kind = "err"
       /\ elts[l].kind = "none"

\* for_each_row's loop has met what stops it
ForEachStopped ==
  \/ elts # << >> /\ elts[Len(elts)].kind \in {"err", "none"}
  \/ calls # << >> /\ ~calls[Len(calls)].ret

\* C16: for_each_row gives the callback the records in line order; it has
\* only polled beyond Ok elements the callback returned true for, it invoked
\* the callback for these Ok elements and no other, and it has returned as
\* soon as the callback returned false (Ok), a read failed (Err) or the
\* stream ended (Ok)
C16_ForEachStops ==
  op = "for_each_row" =>
    /\ \A i \in 1..Len(calls) : calls[i].rec = SourceRecord(i)
    /\ \A i \in 1..(Len(elts) - 1) :
         /\ elts[i].kind = "ok"
         /\ calls[i].ret
    /\ Len(calls) = Cardinality({i \in 1..Len(elts) : elts[i].kind = "ok"})
    /\ (ipc = "done" /\ elts # << >>) <=> ForEachStopped
    /\ (ipc = "done" /\ elts # << >>) =>
         iret.kind = IF elts[Len(elts)].kind = "err" THEN "Err" ELSE "Ok"
    /\ ipc # "done" => iret = NoReturn

\* the callback returned false before the last line, and for_each_row
\* returned Ok without another poll
C16_Witness ==
  /\ op = "for_each_row"
  /\ ipc = "done"
  /\ iret.kind = "Ok"
  /\ Len(calls) = 2
  /\ ~calls[2].ret
  /\ Len(elts) = 2
  /\ Len(source) = 3

\* the records of a sequence that have the key
Matching(rows, key) ==
  LET Test(row) == Predicate(key, row)
  IN SelectSeq(rows, Test)

\* C17: filter_rows returns Ok with the records the predicate holds of, in
\* line order and as often as they occur, when no read failed, and Err
\* without a list when iter() or a read failed
C17_FilterExact ==
  (op = "filter_rows" /\ ipc = "done") =>
    IF reader.open /\ NoReadFailed
    THEN iret = OkReturn(Matching(SourceRecords(Len(source)), pred))
    ELSE iret = ErrReturn

\* filter_rows returned the same record twice and left a record out
C17_Witness ==
  /\ op = "filter_rows"
  /\ ipc = "done"
  /\ iret.kind = "Ok"
  /\ Len(iret.val) = 2
  /\ iret.val[1] = iret.val[2]
  /\ Len(source) = 3

\* the left fold of the reducer over the records of the first n lines
RECURSIVE FoldLeft(_, _)
FoldLeft(init, n) ==
  IF n = 0 THEN init ELSE Reducer(FoldLeft(init, n - 1), SourceRecord(n))

\* C18: aggregate returns Ok with the left fold of the reducer over the
\* records of all lines, those without entry included, when no read failed,
\* and Err without the accumulator when iter() or a read failed
C18_LeftFold ==
  (op = "aggregate" /\ ipc = "done") =>
    IF reader.open /\ NoReadFailed
    THEN iret = OkReturn(FoldLeft(<< >>, Len(source)))
    ELSE iret = ErrReturn

\* aggregate folded a source with an empty record between two others
C18_Witness ==
  /\ op = "aggregate"
  /\ ipc = "done"
  /\ iret.kind = "Ok"
  /\ Len(iret.val) = 3
  /\ iret.val[1] # EmptyRecord
  /\ iret.val[2] = EmptyRecord
  /\ iret.val[3] # iret.val[1]

\* a read failed after aggregate had folded a record
C18_WitnessErr ==
  /\ op = "aggregate"
  /\ ipc = "done"
  /\ iret = ErrReturn
  /\ acc # << >>

---------------------------------------------------------------------------
(* Properties of create_reader (specification SpecOpen) *)

\* the path, lower-cased, is a non-empty stem followed by the ending, or the
\* ending alone
HasEnding(path, ending) ==
  LET path_str == LowerStr(path)
      n == Len(path_str) - Len(ending)
  IN /\ n >= 0
     /\ \A i \in 1..Len(ending) : path_str[n + i] = ending[i]

\* the decoder the claim names for a path
ClaimedDecoder(path) ==
  CASE HasEnding(path, <<".", "g", "z">>) -> "gzip"
    [] HasEnding(path, <<".", "g", "z", "i", "p">>) -> "gzip"
    [] HasEnding(path, <<".", "z", "s", "t">>) -> "zstd"
    [] HasEnding(path, <<".", "z", "s", "t", "d">>) -> "zstd"
    [] HasEnding(path, <<".", "z", "i", "p">>) -> "zip"
    [] OTHER -> "raw"

\* C20: once the file is opened, the branch create_reader takes is the one
\* of the lower-cased path's ending (.gz and .gzip gzip, .zst and .zstd zstd,
\* .zip the archive reader, anything else raw), whatever the file holds
C20_DecoderBySuffix ==
  (opened # NotOpened /\ content.exists) =>
    opened.decoder = ClaimedDecoder(opath)

\* a file named in upper case .GZ that holds a zip archive is opened with the
\* gzip decoder
C20_Witness ==
  /\ opened.kind = "Ok"
  /\ opened.decoder = "gzip"
  /\ content.format = "zip"
  /\ opath = <<"t", ".", "G", "Z">>

\* the file's bytes are not a stream of the decoder chosen for the path
Malformed(path, file) ==
  /\ file.exists
  /\ ClaimedDecoder(path) \in {"gzip", "zstd", "zip"}
  /\ file.format # ClaimedDecoder(path)

\* C21 as claimed: a file that cannot be opened and a malformed compressed
\* header make the open call return Err, and no first poll meets the
\* malformed header
C21_ErrorsAtOpen ==
  opened # NotOpened =>
    /\ (~content.exists \/ Malformed(opath, content)) => opened.kind = "Err"
    /\ (polled = "err" => ~Malformed(opath, content))

\* C22: for a .zip name over a zip archive, the open call fails with
\* InvalidData when the archive has no entry, and a reader it returns reads
\* the entry at index 0, however many entries follow
C22_FirstEntryOnly ==
  (opened # NotOpened /\ content.exists /\ ClaimedDecoder(opath) = "zip"
     /\ content.format = "zip") =>
    /\ content.entries = 0 =>
         opened.kind = "Err" /\ opened.err = "InvalidData"
    /\ opened.kind = "Ok" =>
         /\ content.entries >= 1
         /\ opened.entry = 0
    /\ (content.entries >= 1 /\ content.readable) => opened.kind = "Ok"

\* an archive of several entries was opened and polled
C22_Witness ==
  /\ opened.kind = "Ok"
  /\ opened.decoder = "zip"
  /\ content.entries = MaxEntries
  /\ opened.entry = 0
  /\ polled = "ok"

\* an archive without entry was refused
C22_WitnessEmpty ==
  /\ opened.kind = "Err"
  /\ opened.decoder = "zip"
  /\ content.format = "zip"
  /\ content.entries = 0

---------------------------------------------------------------------------
(* Properties of iter()'s flag (specification SpecFlag) *)

\* the endings after which a name is one of pure telemetry
StrapEndings ==
  { DotStrap \o suffix :
      suffix \in { << >>,
                   <<".", "g", "z">>,
                   <<".", "g", "z", "i", "p">>,
                   <<".", "z", "s", "t">>,
                   <<".", "z", "s", "t", "d">>,
                   <<".", "z", "i", "p">> } }

ClaimedPermissive(path) == \E ending \in StrapEndings : HasEnding(path, ending)

\* the flag is the one the claim names for the path
FlagByName == parsed => (oall = ClaimedPermissive(opath))

\* C23 as claimed: the flag is set exactly for the names ending in .strap or
\* in .strap and one compression suffix, whatever the decoder, and under
\* every other name a line without marker produces no entry
C23_PermissiveByName ==
  parsed =>
    /\ oall = ClaimedPermissive(opath)
    /\ (~ClaimedPermissive(opath) /\ ~HasMarker) => result = EmptyRecord


---------------------------------------------------------------------------
(* Properties of the result cache (specification SpecCache) *)

\* the entry the cache holds for a key
Cached(k) == k.input \in DOMAIN cache[k.kind]

\* C29: every query is run at most once per kind and input, and exactly
\* when the input has an entry; an entry, good or the empty one of a failed
\* computation, is what every request returns, and a request that finds its
\* entry runs no query, whatever has happened to the file since
C29_ComputedOncePerInput ==
  /\ \A k \in CacheKeys :
       /\ queries[k] <= 1
       /\ Cached(k) <=> queries[k] = 1
       /\ Cached(k) =>
            /\ cache[k.kind][k.input].kind = k.kind
            /\ cache[k.kind][k.input].of <= parquet.version
  /\ gret.kind # "none" =>
       /\ Cached([kind |-> gret.kind, input |-> gret.input])
       /\ gret.output = cache[gret.kind][gret.input]

\* a request was answered without a query from the entry of a failed
\* computation, although the file has been rewritten and is readable now
C29_Witness ==
  /\ gret.kind \in {"stat", "histogram"}
  /\ ~gret.queried
  /\ gret.output = EmptyOutput(gret.kind)
  /\ parquet.readable
  /\ parquet.version > 0
  /\ queries[[kind |-> gret.kind, input |-> gret.input]] = 1

\* a request was answered without a query from a result computed on a
\* version of the file that a later conversion has replaced
C29_WitnessStale ==
  /\ gret.kind # "none"
  /\ ~gret.queried
  /\ ~gret.output.empty
  /\ gret.output.of < parquet.version

---------------------------------------------------------------------------
(* Properties of the filter editor (specification SpecFilter) *)

\* the text "()" occurs in a string
HasEmptyParens(str) == Find(str, <<"(", ")">>) # 0

\* C30: a filter the buttons lead to that is not empty renders only groups
\* with at least one comparison: no "()" in its WHERE or AND clause
C30_NoEmptyGroupRendered ==
  ~is_empty(conditions) =>
    /\ \A g \in 1..Len(conditions) : conditions[g] # << >>
    /\ ~HasEmptyParens(to_sql_where_prefix(conditions))
    /\ ~HasEmptyParens(to_sql_and_prefix(conditions))

\* a filter that is empty renders no clause at all
EmptyFilterNoClause ==
  is_empty(conditions) =>
    /\ to_sql_where_prefix(conditions) = << >>
    /\ to_sql_and_prefix(conditions) = << >>

=============================================================================
